---- MODULE Spec2Model ----
(***************************************************************************)
(* Model of the MERALCO rate API: the /rates handler and its month cache   *)
(* (src/src/api.py) on top of the rate acquirer (src/src/scraper.py).      *)
(*                                                                         *)
(* Python values are modelled as follows.  A value that may be None is an  *)
(* option: None is <<>> and a present value v is <<v>>.  A dict is a       *)
(* function from its keys to options, so that removing the None-valued     *)
(* keys (clean_response) is a change of domain.  datetime.now() is a read  *)
(* of the variable clock, which counts ticks; TicksPerMonth ticks make a   *)
(* calendar month.                                                         *)
(***************************************************************************)
EXTENDS Integers, Sequences, FiniteSets, TLC

VARIABLES
    cache,      \* _cache of api.py: [data, month]
    clock,      \* the wall clock read by datetime.now()
    last,       \* the last request: the acquirer calls it made and the body it sent
    entry,      \* the last successful acquisition (history)
    threads,    \* the request threads of the server: position in rates() and locals
    writer,     \* which thread wrote _cache["data"] and which _cache["month"] (history)
    run         \* one call of a function of the scraper: its arguments and its result

vars == <<cache, clock, last, entry, threads, writer, run>>

-----------------------------------------------------------------------------
(* Bounds of the model *)

MaxClock == 8           \* last tick of the wall clock
TicksPerMonth == 3      \* ticks in one calendar month
MaxDelay == 1           \* ticks that may pass between the handler's and the acquirer's clock read
StartYear == 2025       \* the year of tick 0
StartMonth == 11        \* the month of tick 0 (the run crosses a year end)
NumThreads == 2         \* request threads of the threaded server
MaxClockThreaded == 2   \* last tick of the wall clock under the threaded server

-----------------------------------------------------------------------------
(* Options *)

None == <<>>
Some(v) == <<v>>

-----------------------------------------------------------------------------
(* Exceptions: a function that raises returns Raise(name) *)

Raise(e) == [raised |-> e]
IsRaised(x) == "raised" \in DOMAIN x

-----------------------------------------------------------------------------
(* The calendar *)

MonthIndex(t) == (StartMonth - 1) + (t \div TicksPerMonth)

\* (now.year, now.month)
YearMonth(t) == <<StartYear + (MonthIndex(t) \div 12), (MonthIndex(t) % 12) + 1>>

IsLeap(y) == (y % 4 = 0 /\ y % 100 # 0) \/ y % 400 = 0

DaysInMonth(y, m) ==
    IF m = 2 THEN (IF IsLeap(y) THEN 29 ELSE 28)
    ELSE IF m \in {4, 6, 9, 11} THEN 30 ELSE 31

\* date - timedelta(days=30)
minus_thirty_days(date) ==
    LET py == IF date.month = 1 THEN date.year - 1 ELSE date.year
        pm == IF date.month = 1 THEN 12 ELSE date.month - 1
        qy == IF pm = 1 THEN py - 1 ELSE py
        qm == IF pm = 1 THEN 12 ELSE pm - 1
        d1 == date.day - 30 + DaysInMonth(py, pm)
    IN  IF date.day > 30 THEN [date EXCEPT !.day = date.day - 30]
        ELSE IF d1 >= 1 THEN [year |-> py, month |-> pm, day |-> d1]
        ELSE [year |-> qy, month |-> qm, day |-> d1 + DaysInMonth(qy, qm)]

\* date - relativedelta(months=1): the month before, the day clipped to the
\* last day of that month.
minus_one_month(date) ==
    LET y == IF date.month = 1 THEN date.year - 1 ELSE date.year
        m == IF date.month = 1 THEN 12 ELSE date.month - 1
        last_day == DaysInMonth(y, m)
    IN  [year  |-> y,
         month |-> m,
         day   |-> IF date.day > last_day THEN last_day ELSE date.day]

\* now - relativedelta(months=1), as a (year, month)
previous_month(ym) == IF ym[2] = 1 THEN <<ym[1] - 1, 12>> ELSE <<ym[1], ym[2] - 1>>

-----------------------------------------------------------------------------
(* The pages of the site *)

MaxAmount == 2          \* largest number captured from a page, in units of the model

Amounts == 0..MaxAmount

\* The direction words of change_pattern as a text can spell them: the
\* pattern is matched with re.IGNORECASE.
DirectionWords ==
    {"increase", "decrease", "reduction", "upward adjustment",
     "Increase", "DECREASE", "Reduction", "Upward Adjustment"}

\* A direction word left as the text spells it.
same_case(word) == word

\* str.lower on a direction word.
lower(word) ==
    CASE word = "Increase"          -> "increase"
      [] word = "DECREASE"          -> "decrease"
      [] word = "Reduction"         -> "reduction"
      [] word = "Upward Adjustment" -> "upward adjustment"
      [] OTHER                      -> word

\* The not-found text a page may carry.
Markers == {"none", "PAGE NOT FOUND", "Page not found"}

\* The text of the main container: whether it has any characters, the number
\* captured by overall_pattern and the word and number captured by
\* change_pattern, when they match.  Texts are shorter than 1000 characters.
EmptyText == [body |-> "", rate |-> None, change |-> None]

Texts ==
    {EmptyText} \cup
    [body   : {"words"},
     rate   : {None} \cup {Some(a) : a \in Amounts},
     change : {None} \cup {Some([word |-> w, amount |-> a]) : w \in DirectionWords, a \in Amounts}]

\* The page whose fetch raised (timeout, navigation error).
FailedFetch == [fetch |-> "error", marker |-> "none", main |-> FALSE, text |-> EmptyText]

\* What a candidate URL can serve: main tells whether parse_rates finds a
\* main container (main#main-content, article or div.content).
Pages ==
    {FailedFetch} \cup
    {p \in [fetch : {"ok"}, marker : Markers, main : BOOLEAN, text : Texts] :
        ~ p.main => p.text = EmptyText}

Trends == {"down", "up"}

\* The orders in which the two concurrent fetches can complete.
Orders == {<<"down", "up">>, <<"up", "down">>}

\* What resolving one month meets: whether the browser launches, what each
\* candidate serves and the order in which the fetches complete.
Sites == [launch : BOOLEAN, pages : [Trends -> Pages], order : Orders]

-----------------------------------------------------------------------------
(* The scraper *)

\* The pages the API runs draw from.
PageKinds == {"unreachable", "notfound", "mixedcase", "nomain", "text", "rate", "zerodiv"}

KindPage(kind) ==
    CASE kind = "unreachable" -> FailedFetch
      [] kind = "notfound" ->
            [fetch |-> "ok", marker |-> "PAGE NOT FOUND", main |-> TRUE,
             text |-> [body |-> "words", rate |-> None, change |-> None]]
      [] kind = "mixedcase" ->
            [fetch |-> "ok", marker |-> "Page not found", main |-> TRUE,
             text |-> [body |-> "words", rate |-> None, change |-> None]]
      [] kind = "nomain" ->
            [fetch |-> "ok", marker |-> "none", main |-> FALSE, text |-> EmptyText]
      [] kind = "text" ->
            [fetch |-> "ok", marker |-> "none", main |-> TRUE,
             text |-> [body |-> "words", rate |-> None, change |-> None]]
      [] kind = "rate" ->
            [fetch |-> "ok", marker |-> "none", main |-> TRUE,
             text |-> [body |-> "words", rate |-> Some(2),
                       change |-> Some([word |-> "decrease", amount |-> 1])]]
      [] kind = "zerodiv" ->
            [fetch |-> "ok", marker |-> "none", main |-> TRUE,
             text |-> [body |-> "words", rate |-> Some(1),
                       change |-> Some([word |-> "increase", amount |-> 1])]]

\* get_month_url: the URL carries the trend word and the month name, no year.
get_month_url(target) ==
    [up |-> <<"higher-rates", target[2]>>, down |-> <<"lower-rates", target[2]>>]

\* fetch_page_content: the page content, or None when the fetch raised.
fetch_page_content(page) == IF page.fetch = "error" THEN None ELSE Some(page)

\* The truth value of an optional number: None and 0.0 are false.
TruthyNumber(v) == v # None /\ v[1] # 0

\* The truth value of an optional string: None and "" are false.
TruthyString(v) == v # None /\ v[1] # ""

\* The integer nearest to a / b, for b # 0.
RoundDiv(a, b) ==
    IF b > 0 THEN (2 * a + b) \div (2 * b) ELSE (2 * (0 - a) - b) \div (2 * (0 - b))

\* parse_rates taking a rate that is not matched as 0.0 in the percentage.
parse_rates_missing_rate_zero(content) ==
    LET rates == [rate_kwh            |-> None,
                  rate_change         |-> None,
                  rate_change_percent |-> None,
                  rate_unit           |-> Some("PHP/kWh"),
                  raw_text            |-> None]
        text == content.text
        direction == lower(text.change[1].word)
        amount == IF direction \in {"decrease", "reduction"}
                  THEN 0 - text.change[1].amount
                  ELSE text.change[1].amount
        found == [rates EXCEPT !.raw_text = Some(text.body), !.rate_kwh = text.rate]
        rate_kwh == IF text.rate = None THEN 0 ELSE text.rate[1]
        previous_rate == rate_kwh - amount
    IN  IF ~ content.main THEN rates
        ELSE IF text.change = None THEN found
        ELSE IF amount # 0
             THEN IF previous_rate = 0
                  THEN Raise("ZeroDivisionError")
                  ELSE [found EXCEPT
                          !.rate_change = Some(amount),
                          !.rate_change_percent = Some(RoundDiv(amount * 10000, previous_rate))]
             ELSE [found EXCEPT !.rate_change = Some(amount)]

\* parse_rates: the reading extracted from a page.  rate_change_percent is
\* in hundredths of a percent (round(..., 2)).
parse_rates(content) ==
    LET rates == [rate_kwh            |-> None,
                  rate_change         |-> None,
                  rate_change_percent |-> None,
                  rate_unit           |-> Some("PHP/kWh"),
                  raw_text            |-> None]
        text == content.text
        direction == lower(text.change[1].word)
        amount == IF direction \in {"decrease", "reduction"}
                  THEN 0 - text.change[1].amount
                  ELSE text.change[1].amount
        found == [rates EXCEPT !.raw_text = Some(text.body), !.rate_kwh = text.rate]
        previous_rate == text.rate[1] - amount
    IN  IF ~ content.main THEN rates
        ELSE IF text.change = None THEN found
        ELSE IF TruthyNumber(text.rate) /\ amount # 0
             THEN IF previous_rate = 0
                  THEN Raise("ZeroDivisionError")
                  ELSE [found EXCEPT
                          !.rate_change = Some(amount),
                          !.rate_change_percent = Some(RoundDiv(amount * 10000, previous_rate))]
             ELSE [found EXCEPT !.rate_change = Some(amount)]

\* "PAGE NOT FOUND" not in content
NoNotFoundMarker(content) == content.marker # "PAGE NOT FOUND"

\* data.get("rate_kwh") or data.get("raw_text")
Informative(data) == TruthyNumber(data.rate_kwh) \/ TruthyString(data.raw_text)

\* The test of one fetched page in the loop of try_fetch_rates_for_date.
Accepted(content) ==
    /\ content # None
    /\ NoNotFoundMarker(content[1])
    /\ ~ IsRaised(parse_rates(content[1]))
    /\ Informative(parse_rates(content[1]))

\* fetch_urls_parallel over fetches that let their exception escape:
\* asyncio.gather raises the first of them.
fetch_urls_parallel_aborting(urls_to_fetch, site) ==
    IF ~ site.launch
    THEN Raise("BrowserError")
    ELSE IF \E i \in 1..Len(urls_to_fetch) : site.pages[urls_to_fetch[i][2]].fetch = "error"
    THEN Raise("TimeoutError")
    ELSE [results |->
            [i \in 1..Len(urls_to_fetch) |->
                <<urls_to_fetch[i][1],
                  fetch_page_content(site.pages[urls_to_fetch[i][2]]),
                  urls_to_fetch[i][2]>>]]

\* fetch_urls_parallel: launch is outside any try; asyncio.gather returns the
\* results in the order of urls_to_fetch, whatever the order in which the
\* fetches complete.  The list is returned in the field results.
fetch_urls_parallel(urls_to_fetch, site) ==
    IF ~ site.launch
    THEN Raise("BrowserError")
    ELSE [results |->
            [i \in 1..Len(urls_to_fetch) |->
                <<urls_to_fetch[i][1],
                  fetch_page_content(site.pages[urls_to_fetch[i][2]]),
                  urls_to_fetch[i][2]>>]]

\* fetched_pages.sort with "up" first.
sort_up_first(fetched_pages) ==
    LET IsDown(x) == x[3] = "down"
        IsUp(x) == x[3] # "down"
    IN  SelectSeq(fetched_pages, IsUp) \o SelectSeq(fetched_pages, IsDown)

\* fetched_pages.sort(key=lambda x: 0 if x[2] == "down" else 1), a stable sort.
sort_down_first(fetched_pages) ==
    LET IsDown(x) == x[3] = "down"
        IsUp(x) == x[3] # "down"
    IN  SelectSeq(fetched_pages, IsDown) \o SelectSeq(fetched_pages, IsUp)

RECURSIVE process_pages(_, _, _)
\* The loop of try_fetch_rates_for_date over the sorted pages, and what
\* follows it.
process_pages(fetched_pages, result, target) ==
    IF fetched_pages = <<>>
    THEN [result EXCEPT
            !.error = Some([text |-> "Could not find rate information for", month |-> target])]
    ELSE LET url     == Head(fetched_pages)[1]
             content == Head(fetched_pages)[2][1]
             trend   == Head(fetched_pages)[3]
             data    == parse_rates(content)
         IN  IF ~ NoNotFoundMarker(content)
             THEN process_pages(Tail(fetched_pages), result, target)
             ELSE IF IsRaised(data) THEN data
             ELSE IF Informative(data)
                  THEN [result EXCEPT
                          !.success = Some(TRUE),
                          !.url     = Some(url),
                          !.data    = Some(data @@ [trend |-> Some(trend)])]
                  ELSE process_pages(Tail(fetched_pages), result, target)

\* try_fetch_rates_for_date with "data": None in the initial result of line 136.
try_fetch_rates_for_date_data_none(target, site, now) ==
    LET urls    == get_month_url(target)
        result  == [success      |-> Some(FALSE),
                    url          |-> None,
                    data         |-> None,
                    error        |-> None,
                    warning      |-> None,
                    timestamp    |-> Some(now),
                    target_month |-> Some(target)]
        urls_to_fetch   == <<<<urls.down, "down">>, <<urls.up, "up">>>>
        fetched         == fetch_urls_parallel(urls_to_fetch, site)
        HasContent(x)   == x[2] # None
    IN  IF IsRaised(fetched)
        THEN fetched
        ELSE process_pages(sort_down_first(SelectSeq(fetched.results, HasContent)),
                           result, target)

\* try_fetch_rates_for_date: site is what the month's candidates serve.
try_fetch_rates_for_date(target, site, now) ==
    LET urls    == get_month_url(target)
        result  == [success      |-> Some(FALSE),
                    url          |-> None,
                    data         |-> Some([t \in {} |-> None]),
                    error        |-> None,
                    warning      |-> None,
                    timestamp    |-> Some(now),
                    target_month |-> Some(target)]
        urls_to_fetch   == <<<<urls.down, "down">>, <<urls.up, "up">>>>
        fetched         == fetch_urls_parallel(urls_to_fetch, site)
        HasContent(x)   == x[2] # None
    IN  IF IsRaised(fetched)
        THEN fetched
        ELSE process_pages(sort_down_first(SelectSeq(fetched.results, HasContent)),
                           result, target)

\* Whether resolving a month with this site returns a success.
MonthSucceeds(site) ==
    LET result == try_fetch_rates_for_date(<<StartYear, StartMonth>>, site, 0)
    IN  ~ IsRaised(result) /\ result.success = Some(TRUE)

\* Whether resolving a month with this site returns a failure.
MonthFails(site) ==
    LET result == try_fetch_rates_for_date(<<StartYear, StartMonth>>, site, 0)
    IN  ~ IsRaised(result) /\ result.success # Some(TRUE)

\* get_meralco_rates without the early return of line 186-187: the previous month is resolved as well.
acquire_run_resolves_both(now, cur, prev) ==
    LET first  == try_fetch_rates_for_date(YearMonth(now), cur, now)
        second == try_fetch_rates_for_date(previous_month(YearMonth(now)), prev, now)
        both   == <<YearMonth(now), previous_month(YearMonth(now))>>
    IN  IF IsRaised(first) THEN [result |-> first, resolved |-> <<YearMonth(now)>>]
        ELSE IF first.success = Some(TRUE)
        THEN [result |-> first, resolved |-> both]
        ELSE IF IsRaised(second) THEN [result |-> second, resolved |-> both]
        ELSE IF second.success = Some(TRUE)
        THEN [result |->
                [second EXCEPT
                   !.warning = Some([text    |-> "rates not yet available. Using previous rates instead.",
                                     current |-> YearMonth(now),
                                     used    |-> previous_month(YearMonth(now))])],
              resolved |-> both]
        ELSE [result |->
                [second EXCEPT
                   !.error = Some([text  |-> "Could not find rate information for current or previous month",
                                   month |-> <<0, 0>>])],
              resolved |-> both]

\* get_meralco_rates returning the previous month without the warning of line 195.
acquire_run_fallback_unmarked(now, cur, prev) ==
    LET first  == try_fetch_rates_for_date(YearMonth(now), cur, now)
        second == try_fetch_rates_for_date(previous_month(YearMonth(now)), prev, now)
        both   == <<YearMonth(now), previous_month(YearMonth(now))>>
    IN  IF IsRaised(first) THEN [result |-> first, resolved |-> <<YearMonth(now)>>]
        ELSE IF first.success = Some(TRUE)
        THEN [result |-> first, resolved |-> <<YearMonth(now)>>]
        ELSE IF IsRaised(second) THEN [result |-> second, resolved |-> both]
        ELSE IF second.success = Some(TRUE)
        THEN [result |-> second, resolved |-> both]
        ELSE [result |->
                [second EXCEPT
                   !.error = Some([text  |-> "Could not find rate information for current or previous month",
                                   month |-> <<0, 0>>])],
              resolved |-> both]

\* get_meralco_rates without the assignment of line 199: the error names the previous month.
acquire_run_keeps_month_error(now, cur, prev) ==
    LET first  == try_fetch_rates_for_date(YearMonth(now), cur, now)
        second == try_fetch_rates_for_date(previous_month(YearMonth(now)), prev, now)
        both   == <<YearMonth(now), previous_month(YearMonth(now))>>
    IN  IF IsRaised(first) THEN [result |-> first, resolved |-> <<YearMonth(now)>>]
        ELSE IF first.success = Some(TRUE)
        THEN [result |-> first, resolved |-> <<YearMonth(now)>>]
        ELSE IF IsRaised(second) THEN [result |-> second, resolved |-> both]
        ELSE IF second.success = Some(TRUE)
        THEN [result |->
                [second EXCEPT
                   !.warning = Some([text    |-> "rates not yet available. Using previous rates instead.",
                                     current |-> YearMonth(now),
                                     used    |-> previous_month(YearMonth(now))])],
              resolved |-> both]
        ELSE [result |-> second, resolved |-> both]

\* get_meralco_rates: cur and prev are the sites of the current and of the
\* previous month.  The months resolved are returned with the result.
acquire_run(now, cur, prev) ==
    LET first  == try_fetch_rates_for_date(YearMonth(now), cur, now)
        second == try_fetch_rates_for_date(previous_month(YearMonth(now)), prev, now)
        both   == <<YearMonth(now), previous_month(YearMonth(now))>>
    IN  IF IsRaised(first) THEN [result |-> first, resolved |-> <<YearMonth(now)>>]
        ELSE IF first.success = Some(TRUE)
        THEN [result |-> first, resolved |-> <<YearMonth(now)>>]
        ELSE IF IsRaised(second) THEN [result |-> second, resolved |-> both]
        ELSE IF second.success = Some(TRUE)
        THEN [result |->
                [second EXCEPT
                   !.warning = Some([text    |-> "rates not yet available. Using previous rates instead.",
                                     current |-> YearMonth(now),
                                     used    |-> previous_month(YearMonth(now))])],
              resolved |-> both]
        ELSE [result |->
                [second EXCEPT
                   !.error = Some([text  |-> "Could not find rate information for current or previous month",
                                   month |-> <<0, 0>>])],
              resolved |-> both]

get_meralco_rates(now, cur, prev) == acquire_run(now, cur, prev).result

-----------------------------------------------------------------------------
(* The API: the cache and the /rates handler *)

\* data.get("success")
Succeeded(data) == data.success = Some(TRUE)

\* data.get("warning")
HasWarning(data) == data.warning # None

\* is_cache_valid with the comparison inverted.
is_cache_valid_inverted(c, now) ==
    IF c.data = None \/ c.month = None
    THEN FALSE
    ELSE c.month # Some(YearMonth(now))

\* is_cache_valid without the month comparison.
is_cache_valid_any_month(c, now) ==
    ~ (c.data = None \/ c.month = None)

\* is_cache_valid, with now the value datetime.now() returns in it.
is_cache_valid(c, now) ==
    IF c.data = None \/ c.month = None
    THEN FALSE
    ELSE c.month = Some(YearMonth(now))

\* clean_response: the keys whose value is None are removed.
clean_response(data) ==
    [k \in {key \in DOMAIN data : data[key] # None} |-> data[k]]

StaleWarning ==
    [text    |-> "Current rates temporarily unavailable. Using cached values.",
     current |-> <<0, 0>>,
     used    |-> <<0, 0>>]

\* The retry interval of a fallback entry, in ticks.  api.py of src/ does not
\* define it; tests/test_api.py imports it as FALLBACK_RETRY_SECONDS.
FALLBACK_RETRY_SECONDS == 2

\* rates_success caching every successful result, with or without a warning.
rates_success_cache_all(c, data, now) ==
    [cache |-> [data |-> Some(data), month |-> Some(YearMonth(now))],
     body  |-> clean_response(data)]

\* rates, lines 67-74: the acquisition succeeded.  now is the time read at
\* line 64.  The result is the cache after the branch and the body sent.
rates_success(c, data, now) ==
    [cache |-> IF HasWarning(data)
               THEN c
               ELSE [data |-> Some(data), month |-> Some(YearMonth(now))],
     body  |-> clean_response(data)]

\* rates_stale setting the warning on the cached dict itself (no copy).
rates_stale_no_copy(c) ==
    LET stale_data == IF HasWarning(c.data[1])
                      THEN c.data[1]
                      ELSE [c.data[1] EXCEPT !.warning = Some(StaleWarning)]
    IN  [cache |-> [c EXCEPT !.data = Some(stale_data)],
         body  |-> clean_response(stale_data)]

\* rates, lines 78-83: the acquisition failed and the cache holds a result.
\* The warning is set on a copy of the cached dict.
rates_stale(c) ==
    LET stale_data == IF HasWarning(c.data[1])
                      THEN c.data[1]
                      ELSE [c.data[1] EXCEPT !.warning = Some(StaleWarning)]
    IN  [cache |-> c, body |-> clean_response(stale_data)]

\* rates_failure setting the warning on the failure result when there is no cache.
rates_failure_warns(c, data) ==
    IF c.data # None /\ Succeeded(c.data[1])
    THEN rates_stale(c)
    ELSE [cache |-> c,
          body  |-> clean_response([data EXCEPT !.warning = Some(StaleWarning)])]

\* rates, lines 76-85: the acquisition failed.
rates_failure(c, data) ==
    IF c.data # None /\ Succeeded(c.data[1])
    THEN rates_stale(c)
    ELSE [cache |-> c, body |-> clean_response(data)]

\* rates without the test of data.get("success").
rates_acquired_unchecked(c, data, now) == rates_success(c, data, now)

\* rates, lines 63-85: the cache was not valid and data is what
\* get_meralco_rates returned.
rates_acquired(c, data, now) ==
    IF Succeeded(data) THEN rates_success(c, data, now) ELSE rates_failure(c, data)

\* The history of successful acquisitions: the last one, the time and month
\* the handler read at line 64 for it, and whether it is previous-month data.
EntryAfter(e, data, now) ==
    IF Succeeded(data)
    THEN Some([fetchedAt  |-> now,
               month      |-> YearMonth(now),
               isFallback |-> HasWarning(data),
               url        |-> data.url,
               data       |-> data.data])
    ELSE e

\* The sites the API runs draw from: the browser does not launch, or each
\* candidate serves a page of PageKinds.
PageSets ==
    {[launch |-> FALSE, pages |-> [t \in Trends |-> FailedFetch], order |-> <<"down", "up">>]}
    \cup
    {[launch |-> TRUE, pages |-> [t \in Trends |-> KindPage(kinds[t])], order |-> <<"down", "up">>] :
        kinds \in [Trends -> PageKinds]}

\* What a call of get_meralco_rates at time now can end with: the site of the
\* previous month matters only when resolving the current month fails.
Outcomes(now) ==
    UNION {{get_meralco_rates(now, cur, prev) :
                prev \in (IF MonthFails(cur) THEN PageSets ELSE {cur})} :
           cur \in PageSets}

\* What get_meralco_rates can return when it is called at time now.
Acquisitions(now) == {r \in Outcomes(now) : ~ IsRaised(r)}

\* Acquisitions, tabulated over the clock values of the model.
AcquisitionsAt == [t \in 0..(MaxClock + MaxDelay) |-> Acquisitions(t)]

\* The clock values at which get_meralco_rates can raise.
RaisingTimes == {t \in 0..(MaxClock + MaxDelay) : \E r \in Outcomes(t) : IsRaised(r)}

\* GET /rates served from the cache (lines 59-61).
rates_cached ==
    /\ is_cache_valid(cache, clock)
    /\ last' = [op       |-> "rates",
                n        |-> 1 - last.n,
                calls    |-> 0,
                acquired |-> None,
                body     |-> clean_response(cache.data[1]),
                status   |-> 200]
    /\ UNCHANGED <<cache, clock, entry, threads, writer, run>>

\* GET /rates with an acquisition (lines 63-85).  The clock is read by
\* is_cache_valid and at line 64, and later by get_meralco_rates.
rates_fetch ==
    /\ ~ is_cache_valid(cache, clock)
    /\ \E d \in 0..MaxDelay :
         \E data \in AcquisitionsAt[clock + d] :
            LET now == clock
                out == rates_acquired(cache, data, now)
            IN  /\ clock + d <= MaxClock
                /\ cache' = out.cache
                /\ clock' = clock + d
                /\ entry' = EntryAfter(entry, data, now)
                /\ last'  = [op       |-> "rates",
                             n        |-> 1 - last.n,
                             calls    |-> 1,
                             acquired |-> Some(data),
                             body     |-> out.body,
                             status   |-> 200]
                /\ UNCHANGED <<threads, writer, run>>

\* GET /rates in which get_meralco_rates raises: nothing in rates() catches
\* the exception and the server answers 500.
rates_raises ==
    /\ ~ is_cache_valid(cache, clock)
    /\ \E d \in 0..MaxDelay :
         /\ clock + d <= MaxClock
         /\ clock + d \in RaisingTimes
         /\ clock' = clock + d
    /\ last' = [op       |-> "rates",
                n        |-> 1 - last.n,
                calls    |-> 1,
                acquired |-> None,
                body     |-> [k \in {} |-> None],
                status   |-> 500]
    /\ UNCHANGED <<cache, entry, threads, writer, run>>

rates == rates_cached \/ rates_fetch \/ rates_raises

\* Time passes between two requests.
Tick ==
    /\ clock < MaxClock
    /\ clock' = clock + 1
    /\ UNCHANGED <<cache, entry, last, threads, writer, run>>

-----------------------------------------------------------------------------
(* The threaded server: app.run serves each request in its own thread, and  *)
(* rates() takes no lock.  A thread is at one of the places of rates():      *)
(*   idle         no request                                                 *)
(*   cached       is_cache_valid returned True (line 59)                     *)
(*   miss         is_cache_valid returned False (line 63)                    *)
(*   fetching     get_meralco_rates is running (line 65)                     *)
(*   store_data   the result is to be cached (line 71)                       *)
(*   store_month  _cache["data"] is written, _cache["month"] is not (line 72)*)
(*   failed       the acquisition failed (line 76)                           *)
(*   stale_log    the stale copy is made, the month is not yet read (line 82)*)
(* seen holds the writers of the data and of the month the request has read. *)

Threads == 1..NumThreads

NoThread == 0

IdleThread ==
    [pc |-> "idle", now |-> 0, data |-> None,
     seen |-> [data |-> NoThread, month |-> NoThread]]

\* Line 59: a request arrives and is_cache_valid is evaluated.
t_check(t) ==
    /\ threads[t].pc = "idle"
    /\ threads' = [threads EXCEPT ![t] =
          IF is_cache_valid(cache, clock)
          THEN [IdleThread EXCEPT !.pc = "cached", !.seen.month = writer.month]
          ELSE [IdleThread EXCEPT !.pc = "miss"]]
    /\ UNCHANGED <<cache, clock, last, entry, writer, run>>

\* Lines 60-61: the cached data is read and returned.
t_cached(t) ==
    /\ threads[t].pc = "cached"
    /\ threads' = [threads EXCEPT ![t].pc = "idle", ![t].seen.data = writer.data]
    /\ UNCHANGED <<cache, clock, last, entry, writer, run>>

\* Lines 64-65: the time is read and get_meralco_rates is called.
t_acquire(t) ==
    /\ threads[t].pc = "miss"
    /\ threads' = [threads EXCEPT ![t].pc = "fetching", ![t].now = clock]
    /\ UNCHANGED <<cache, clock, last, entry, writer, run>>

\* Lines 65-76: get_meralco_rates returns and its result is tested.
t_acquired(t) ==
    /\ threads[t].pc = "fetching"
    /\ \E data \in AcquisitionsAt[threads[t].now] :
         threads' = [threads EXCEPT ![t] =
            IF Succeeded(data) /\ ~ HasWarning(data)
            THEN [@ EXCEPT !.pc = "store_data", !.data = Some(data)]
            ELSE IF Succeeded(data)
            THEN [@ EXCEPT !.pc = "idle"]
            ELSE [@ EXCEPT !.pc = "failed"]]
    /\ UNCHANGED <<cache, clock, last, entry, writer, run>>

\* Line 65: get_meralco_rates raises and the request ends with a 500.
t_raises(t) ==
    /\ threads[t].pc = "fetching"
    /\ threads[t].now \in RaisingTimes
    /\ threads' = [threads EXCEPT ![t].pc = "idle"]
    /\ UNCHANGED <<cache, clock, last, entry, writer, run>>

\* Line 71: _cache["data"] = data.
t_store_data(t) ==
    /\ threads[t].pc = "store_data"
    /\ cache' = [cache EXCEPT !.data = threads[t].data]
    /\ writer' = [writer EXCEPT !.data = t]
    /\ threads' = [threads EXCEPT ![t].pc = "store_month", ![t].data = None]
    /\ UNCHANGED <<clock, last, entry, run>>

\* Lines 72-74: _cache["month"] = (now.year, now.month), and the response.
t_store_month(t) ==
    /\ threads[t].pc = "store_month"
    /\ cache' = [cache EXCEPT !.month = Some(YearMonth(threads[t].now))]
    /\ writer' = [writer EXCEPT !.month = t]
    /\ threads' = [threads EXCEPT ![t].pc = "idle"]
    /\ UNCHANGED <<clock, last, entry, run>>

\* Lines 78-81 and 85: the cached data is read for the stale response, or the
\* failure is returned.
t_failed(t) ==
    /\ threads[t].pc = "failed"
    /\ threads' = [threads EXCEPT ![t] =
          IF cache.data # None /\ Succeeded(cache.data[1])
          THEN [@ EXCEPT !.pc = "stale_log", !.seen.data = writer.data]
          ELSE [@ EXCEPT !.pc = "idle"]]
    /\ UNCHANGED <<cache, clock, last, entry, writer, run>>

\* Lines 82-83: _cache["month"] is read for the log line, and the response.
\* When the month is still None the subscript at line 82 raises and the
\* request ends there; the thread is idle again in both cases.
t_stale_log(t) ==
    /\ threads[t].pc = "stale_log"
    /\ threads' = [threads EXCEPT ![t].pc = "idle", ![t].seen.month = writer.month]
    /\ UNCHANGED <<cache, clock, last, entry, writer, run>>

\* Time passes.
TickThreaded ==
    /\ clock < MaxClockThreaded
    /\ clock' = clock + 1
    /\ UNCHANGED <<cache, entry, last, threads, writer, run>>

Init ==
    /\ cache = [data |-> None, month |-> None]
    /\ clock = 0
    /\ entry = None
    /\ last = [op |-> "none", n |-> 0, calls |-> 0, acquired |-> None,
               body |-> [k \in {} |-> None], status |-> 200]
    /\ threads = [t \in Threads |-> IdleThread]
    /\ writer = [data |-> NoThread, month |-> NoThread]
    /\ run = [op |-> "none", done |-> TRUE]

Next == rates_cached \/ rates_fetch \/ rates_raises \/ Tick

\* One request at a time.
Spec == Init /\ [][Next]_vars

NextThreaded ==
    \/ \E t \in Threads : t_check(t)
    \/ \E t \in Threads : t_cached(t)
    \/ \E t \in Threads : t_acquire(t)
    \/ \E t \in Threads : t_acquired(t)
    \/ \E t \in Threads : t_raises(t)
    \/ \E t \in Threads : t_store_data(t)
    \/ \E t \in Threads : t_store_month(t)
    \/ \E t \in Threads : t_failed(t)
    \/ \E t \in Threads : t_stale_log(t)
    \/ TickThreaded

\* Concurrent requests.
SpecThreaded == Init /\ [][NextThreaded]_vars

-----------------------------------------------------------------------------
(* The scraper alone: one function is called once on arguments drawn from   *)
(* bounded sets.  run holds the arguments, and the result once done.        *)

\* Four consecutive years, one of them a leap year.
Dates ==
    {d \in [year : (StartYear - 1)..(StartYear + 2), month : 1..12, day : 1..31] :
        d.day <= DaysInMonth(d.year, d.month)}

\* The months resolved in the runs of try_fetch_rates_for_date.
Targets == {YearMonth(0), YearMonth(MaxClock)}

ScraperInputs ==
    {[op |-> "minus_one_month", done |-> FALSE, date |-> d] : d \in Dates}
    \cup
    {[op |-> "parse_rates", done |-> FALSE, content |-> p] : p \in Pages \ {FailedFetch}}
    \cup
    {[op |-> "try_fetch_rates_for_date", done |-> FALSE, target |-> t, site |-> s] :
        t \in Targets, s \in {[x EXCEPT !.order = o] : x \in PageSets, o \in Orders}}
    \cup
    {[op |-> "get_meralco_rates", done |-> FALSE, now |-> t, cur |-> c, prev |-> p] :
        t \in 0..MaxClock, c \in PageSets, p \in PageSets}

s_minus_one_month ==
    /\ run.op = "minus_one_month" /\ ~ run.done
    /\ run' = [op |-> run.op, done |-> TRUE, date |-> run.date,
               out |-> minus_one_month(run.date)]
    /\ UNCHANGED <<cache, clock, last, entry, threads, writer>>

s_parse_rates ==
    /\ run.op = "parse_rates" /\ ~ run.done
    /\ run' = [op |-> run.op, done |-> TRUE, content |-> run.content,
               out |-> parse_rates(run.content)]
    /\ UNCHANGED <<cache, clock, last, entry, threads, writer>>

s_try_fetch_rates_for_date ==
    /\ run.op = "try_fetch_rates_for_date" /\ ~ run.done
    /\ run' = [op |-> run.op, done |-> TRUE, target |-> run.target, site |-> run.site,
               out |-> try_fetch_rates_for_date(run.target, run.site, 0)]
    /\ UNCHANGED <<cache, clock, last, entry, threads, writer>>

s_get_meralco_rates ==
    /\ run.op = "get_meralco_rates" /\ ~ run.done
    /\ run' = [op |-> run.op, done |-> TRUE, now |-> run.now,
               cur |-> run.cur, prev |-> run.prev,
               out |-> acquire_run(run.now, run.cur, run.prev)]
    /\ UNCHANGED <<cache, clock, last, entry, threads, writer>>

InitScraper ==
    /\ cache = [data |-> None, month |-> None]
    /\ clock = 0
    /\ entry = None
    /\ last = [op |-> "none", n |-> 0, calls |-> 0, acquired |-> None,
               body |-> [k \in {} |-> None], status |-> 200]
    /\ threads = [t \in Threads |-> IdleThread]
    /\ writer = [data |-> NoThread, month |-> NoThread]
    /\ run \in ScraperInputs

NextScraper ==
    \/ s_minus_one_month
    \/ s_parse_rates
    \/ s_try_fetch_rates_for_date
    \/ s_get_meralco_rates

\* One call of one function of the scraper.
SpecScraper == InitScraper /\ [][NextScraper]_vars

-----------------------------------------------------------------------------
(* Properties of the sequential handler, checked under Spec *)

\* The step is a GET /rates.
RatesStep == last'.n # last.n

\* The acquirer was called in the step and returned a failure.
AcquisitionFailed(l) == l.acquired # None /\ ~ Succeeded(l.acquired[1])

\* The acquirer was called in the step and returned previous-month data.
AcquiredFallback(l) ==
    l.acquired # None /\ Succeeded(l.acquired[1]) /\ HasWarning(l.acquired[1])

\* C1: after a get that acquired the current month's rates (success, no
\* warning), every get made while the wall-clock (year, month) is the one that
\* get read calls the acquirer zero times and returns the url and data of
\* that get.
C1_FreshServedFromCache ==
    [][ (/\ RatesStep
         /\ entry # None
         /\ ~ entry[1].isFallback
         /\ YearMonth(clock) = entry[1].month)
        => (/\ last'.calls = 0
            /\ last'.body.url = entry[1].url
            /\ last'.body.data = entry[1].data) ]_vars

C1_Witness ==
    /\ last.op = "rates"
    /\ last.calls = 0
    /\ entry # None
    /\ ~ entry[1].isFallback
    /\ YearMonth(clock) = entry[1].month
    /\ clock > entry[1].fetchedAt
    /\ last.body.url = entry[1].url
    /\ last.body.data = entry[1].data

\* C2: when the last successful acquisition returned previous-month data, a
\* get made before FALLBACK_RETRY_SECONDS have passed since it was fetched
\* calls the acquirer zero times.
C2_FallbackServedFromCache ==
    [][ (/\ RatesStep
         /\ entry # None
         /\ entry[1].isFallback
         /\ clock - entry[1].fetchedAt < FALLBACK_RETRY_SECONDS)
        => last'.calls = 0 ]_vars

C5_StaleServedOnFailure ==
    [][ (/\ RatesStep
         /\ cache.data # None
         /\ Succeeded(cache.data[1])
         /\ ~ is_cache_valid(cache, clock)
         /\ AcquisitionFailed(last'))
        => (/\ last'.body.success = Some(TRUE)
            /\ last'.body.data = cache.data[1].data
            /\ last'.body.url = cache.data[1].url
            /\ last'.body.warning = IF HasWarning(cache.data[1])
                                    THEN cache.data[1].warning
                                    ELSE Some(StaleWarning)
            /\ "error" \notin DOMAIN last'.body
            /\ cache' = cache) ]_vars

C5_Witness ==
    /\ last.op = "rates"
    /\ AcquisitionFailed(last)
    /\ cache.data # None
    /\ ~ HasWarning(cache.data[1])
    /\ last.body.success = Some(TRUE)
    /\ last.body.data = cache.data[1].data
    /\ last.body.warning = Some(StaleWarning)

\* C6: when the cache is empty and the acquisition fails, the get returns the
\* failure result (success false, error set, no warning key) and the cache
\* stays empty.
C6_FailureReturnedOnEmptyCache ==
    [][ (RatesStep /\ cache.data = None /\ AcquisitionFailed(last'))
        => (/\ last'.body = clean_response(last'.acquired[1])
            /\ last'.body.success = Some(FALSE)
            /\ "error" \in DOMAIN last'.body
            /\ "warning" \notin DOMAIN last'.body
            /\ "url" \notin DOMAIN last'.body
            /\ cache' = cache) ]_vars

C6_Witness ==
    /\ last.op = "rates"
    /\ AcquisitionFailed(last)
    /\ cache.data = None
    /\ cache.month = None
    /\ last.body.success = Some(FALSE)
    /\ "error" \in DOMAIN last.body

\* C7: the cache's data is absent or a successful result; a get whose
\* acquisition fails leaves the cache as it was; a cache that holds data
\* never becomes empty.
C7_CacheHoldsOnlySuccess ==
    /\ [](cache.data = None \/ Succeeded(cache.data[1]))
    /\ [][ /\ (RatesStep /\ AcquisitionFailed(last')) => cache' = cache
           /\ cache.data # None => cache'.data # None ]_vars

C7_Witness ==
    /\ last.op = "rates"
    /\ AcquisitionFailed(last)
    /\ cache.data # None
    /\ Succeeded(cache.data[1])
    /\ cache.month # Some(YearMonth(clock))

\* C8: a get is served from the cache exactly when the cache holds data and
\* the stored month is the wall clock's (year, month), whatever time has
\* passed since the data was stored; otherwise it calls the acquirer.
C8_FreshnessByMonth ==
    [][ RatesStep
        => (last'.calls = 0
              <=> (cache.data # None /\ cache.month = Some(YearMonth(clock)))) ]_vars

C8_Witness ==
    /\ last.op = "rates"
    /\ last.calls = 0
    /\ cache.data # None
    /\ cache.month = Some(YearMonth(clock))
    /\ clock - cache.data[1].timestamp[1] >= TicksPerMonth - 1

-----------------------------------------------------------------------------
(* Properties of the threaded server, checked under SpecThreaded *)

\* C9: at most one acquisition is outstanding at any time.
C9_OneAcquisitionInFlight ==
    Cardinality({t \in Threads : threads[t].pc = "fetching"}) <= 1

\* C10: no request reads the data written by one acquisition together with
\* the month written by another.
C10_NoTornRead ==
    \A t \in Threads :
        (threads[t].pc = "idle" /\ threads[t].seen.data # NoThread)
            => threads[t].seen.data = threads[t].seen.month

-----------------------------------------------------------------------------
(* Properties of the handler's answer, checked under Spec *)

\* C11: GET /rates always completes with HTTP 200, whatever the upstream
\* does (browser launch or page fetch failing, not-found pages, any rate
\* text): the handler never raises and never answers with a 5xx.
C11_AlwaysAnswers200 == last.op = "rates" => last.status = 200

-----------------------------------------------------------------------------
(* Properties of get_meralco_rates, checked under SpecScraper *)

\* A finished call of get_meralco_rates that did not raise.
Acquired == run.op = "get_meralco_rates" /\ run.done /\ ~ IsRaised(run.out.result)

\* C12: when the current month resolves, get_meralco_rates returns that
\* result unchanged, with no warning, and the previous month is never resolved.
C12_CurrentMonthReturned ==
    (Acquired /\ MonthSucceeds(run.cur))
        => /\ run.out.result = try_fetch_rates_for_date(YearMonth(run.now), run.cur, run.now)
           /\ run.out.result.success = Some(TRUE)
           /\ run.out.result.target_month = Some(YearMonth(run.now))
           /\ run.out.result.warning = None
           /\ run.out.resolved = <<YearMonth(run.now)>>

C12_Witness ==
    /\ Acquired
    /\ MonthSucceeds(run.cur)
    /\ MonthSucceeds(run.prev)
    /\ run.out.result.data[1].rate_kwh = Some(2)

\* C13: the previous month is resolved only after the current month failed;
\* when it resolves, the result is a success with the previous month's url
\* and data, and a warning that names the current month as not yet available
\* and the previous month as the one in use.
C13_PreviousMonthFallback ==
    LET current  == YearMonth(run.now)
        previous == minus_one_month([year |-> current[1], month |-> current[2], day |-> 1])
        used     == <<previous.year, previous.month>>
        second   == try_fetch_rates_for_date(used, run.prev, run.now)
    IN  /\ (run.op = "get_meralco_rates" /\ run.done /\ Len(run.out.resolved) = 2)
            => (MonthFails(run.cur) /\ run.out.resolved = <<current, used>>)
        /\ (Acquired /\ MonthFails(run.cur) /\ MonthSucceeds(run.prev))
            => /\ run.out.result.success = Some(TRUE)
               /\ run.out.result.url = second.url
               /\ run.out.result.url[1][2] = used[2]
               /\ run.out.result.data = second.data
               /\ run.out.result.error = None
               /\ run.out.result.warning # None
               /\ run.out.result.warning[1].current = current
               /\ run.out.result.warning[1].used = used

C13_Witness ==
    /\ Acquired
    /\ MonthFails(run.cur)
    /\ MonthSucceeds(run.prev)
    /\ YearMonth(run.now)[2] = 1
    /\ run.out.result.warning # None

\* C14: when neither month resolves, the result is a failure whose error says
\* that no rate information was found for the current or the previous month,
\* with no url and no warning.
C14_BothMonthsFail ==
    (Acquired /\ MonthFails(run.cur) /\ MonthFails(run.prev))
        => /\ run.out.result.success = Some(FALSE)
           /\ run.out.result.error # None
           /\ run.out.result.error[1].text =
                 "Could not find rate information for current or previous month"
           /\ run.out.result.url = None
           /\ run.out.result.warning = None

C14_Witness ==
    /\ Acquired
    /\ MonthFails(run.cur)
    /\ MonthFails(run.prev)
    /\ run.out.resolved = <<YearMonth(run.now), previous_month(YearMonth(run.now))>>
    /\ run.out.result.success = Some(FALSE)

\* C15: the fallback month is the calendar month immediately before the
\* current one, December of the year before when the current month is
\* January, also on the days 29 to 31 that the month before does not have.
C15_CalendarMonthBefore ==
    (run.op = "minus_one_month" /\ run.done)
        => LET date == run.date
               out  == run.out
           IN  /\ IF date.month = 1
                  THEN out.year = date.year - 1 /\ out.month = 12
                  ELSE out.year = date.year /\ out.month = date.month - 1
               /\ out.day \in 1..DaysInMonth(out.year, out.month)
               /\ previous_month(<<date.year, date.month>>) = <<out.year, out.month>>

C15_Witness ==
    /\ run.op = "minus_one_month"
    /\ run.done
    /\ run.date.month = 3
    /\ run.date.day = 31
    /\ run.out.month = 2
    /\ run.out.day = 29

-----------------------------------------------------------------------------
(* Properties of try_fetch_rates_for_date, checked under SpecScraper *)

\* A finished call of try_fetch_rates_for_date that did not raise.
Resolved == run.op = "try_fetch_rates_for_date" /\ run.done /\ ~ IsRaised(run.out)

\* Whether the candidate of this trend passes the test of the loop.
CandidateAccepted(trend) == Accepted(fetch_page_content(run.site.pages[trend]))

\* C16: when both the down and the up candidate would be accepted, the result
\* is the down candidate, whatever the order in which the fetches completed;
\* the url and the trend of a success are those of the accepted candidate.
C16_DownPreferred ==
    Resolved
        => /\ (CandidateAccepted("down") /\ CandidateAccepted("up"))
                => /\ run.out.success = Some(TRUE)
                   /\ run.out.data[1].trend = Some("down")
                   /\ run.out.url = Some(get_month_url(run.target).down)
           /\ run.out.success = Some(TRUE)
                => \E t \in Trends :
                      /\ CandidateAccepted(t)
                      /\ run.out.url = Some(get_month_url(run.target)[t])
                      /\ run.out.data = Some(parse_rates(run.site.pages[t]) @@ [trend |-> Some(t)])

C16_Witness ==
    /\ Resolved
    /\ run.site.order = <<"up", "down">>
    /\ CandidateAccepted("down")
    /\ CandidateAccepted("up")
    /\ run.site.pages["down"] # run.site.pages["up"]
    /\ run.out.data[1].trend = Some("down")

\* C17: a candidate is accepted only if its fetch succeeded, its content has
\* no 'page not found' marker in any letter case, and its reading is
\* informative.
C17_AcceptedOnlyIfClean ==
    (Resolved /\ run.out.success = Some(TRUE))
        => LET page == run.site.pages[run.out.data[1].trend[1]]
           IN  /\ page.fetch = "ok"
               /\ page.marker = "none"
               /\ Informative(parse_rates(page))

\* The empty dict.
EmptyDict == [k \in {} |-> None]

\* C18 as stated: every resolved month result has exactly one of data and
\* error present; a failure has success false, an error naming the month and
\* year, and data absent; a success has data present and error absent.
C18_DataXorErrorAsStated ==
    Resolved
        => /\ (run.out.data # None) # (run.out.error # None)
           /\ run.out.success # Some(TRUE)
                => /\ run.out.success = Some(FALSE)
                   /\ run.out.error # None
                   /\ run.out.error[1].month = run.target
                   /\ run.out.data = None
           /\ run.out.success = Some(TRUE)
                => /\ run.out.data # None
                   /\ run.out.error = None

\* C18: every resolved month result has either a reading or an error: a
\* failure has success false, an error naming the month and year, and the
\* empty dict as data (present, with no field); a success has a non-empty
\* data and no error.
C18_ReadingXorError ==
    Resolved
        => /\ run.out.data # None
           /\ (run.out.data[1] # EmptyDict) # (run.out.error # None)
           /\ run.out.success # Some(TRUE)
                => /\ run.out.success = Some(FALSE)
                   /\ run.out.error # None
                   /\ run.out.error[1].month = run.target
                   /\ run.out.data = Some(EmptyDict)
                   /\ run.out.url = None
           /\ run.out.success = Some(TRUE)
                => /\ run.out.data[1] # EmptyDict
                   /\ run.out.data[1].trend # None
                   /\ run.out.error = None

C18_Witness ==
    /\ Resolved
    /\ run.out.success = Some(FALSE)
    /\ run.out.data = Some(EmptyDict)
    /\ run.out.error # None
    /\ run.out.error[1].month = YearMonth(MaxClock)
    /\ run.site.pages["down"].fetch = "ok"

-----------------------------------------------------------------------------
(* Properties of the serialized response, checked under Spec *)

\* C19: the serialized /rates response never contains a field whose value is
\* absent, the fields of data (rate_kwh, rate_change, rate_change_percent)
\* included.
C19_NoAbsentField ==
    (last.op = "rates" /\ last.status = 200)
        => /\ \A k \in DOMAIN last.body : last.body[k] # None
           /\ "data" \in DOMAIN last.body
                => \A f \in DOMAIN last.body.data[1] : last.body.data[1][f] # None

-----------------------------------------------------------------------------
(* Properties of parse_rates, checked under SpecScraper *)

\* C20: parse_rates never raises, whatever the page text, also when the rate
\* change equals the rate (a previous rate of zero); the fields that are not
\* matched or not defined are absent from the reading.
C20_ParseNeverRaises ==
    (run.op = "parse_rates" /\ run.done)
        => /\ ~ IsRaised(run.out)
           /\ run.content.text.rate = None => run.out.rate_kwh = None
           /\ run.content.text.change = None
                => (run.out.rate_change = None /\ run.out.rate_change_percent = None)

\* A finished call of parse_rates that did not raise.
Parsed == run.op = "parse_rates" /\ run.done /\ ~ IsRaised(run.out)

\* C21: whenever both the rate and the rate change are present in a reading,
\* a rate change of 0 included, rate_change_percent is present and equals
\* round(rate_change / (rate_kwh - rate_change) * 100, 2).
C21_PercentWhenBothPresent ==
    (Parsed /\ run.out.rate_kwh # None /\ run.out.rate_change # None)
        => /\ run.out.rate_change_percent # None
           /\ run.out.rate_change_percent =
                 Some(RoundDiv(run.out.rate_change[1] * 10000,
                               run.out.rate_kwh[1] - run.out.rate_change[1]))

\* C22: for every text without the rate phrase, the reading has rate_kwh
\* absent and rate_change_percent absent, also when a rate-change phrase
\* matches and rate_change is set.
C22_NoRateNoPercent ==
    (run.op = "parse_rates" /\ run.done /\ run.content.text.rate = None)
        => /\ ~ IsRaised(run.out)
           /\ run.out.rate_kwh = None
           /\ run.out.rate_change_percent = None

C22_Witness ==
    /\ Parsed
    /\ run.content.main
    /\ run.content.text.rate = None
    /\ run.content.text.change # None
    /\ run.out.rate_change = Some(0 - 1)
    /\ run.out.rate_change_percent = None

\* C23: the sign of rate_change follows the direction word of the first
\* match of change_pattern, in any letter case: 'decrease' and 'reduction'
\* give the negated magnitude, 'increase' and 'upward adjustment' the
\* magnitude itself.
C23_SignFollowsDirection ==
    (Parsed /\ run.content.main /\ run.content.text.change # None)
        => LET word   == run.content.text.change[1].word
               amount == run.content.text.change[1].amount
           IN  /\ word \in {"decrease", "DECREASE", "reduction", "Reduction"}
                    => run.out.rate_change = Some(0 - amount)
               /\ word \in {"increase", "Increase", "upward adjustment", "Upward Adjustment"}
                    => run.out.rate_change = Some(amount)

C23_Witness ==
    /\ Parsed
    /\ run.content.main
    /\ run.content.text.change # None
    /\ run.content.text.change[1].word = "DECREASE"
    /\ run.content.text.change[1].amount = 1
    /\ run.out.rate_change = Some(0 - 1)

-----------------------------------------------------------------------------
(* Properties of the candidate fetches, checked under SpecScraper *)

\* The other candidate.
OtherTrend(trend) == IF trend = "down" THEN "up" ELSE "down"

\* C24: a failure or timeout while fetching one candidate URL only skips that
\* candidate: it is reported as a fetch without content, it does not abort
\* the resolution of the month, and the other candidate is still evaluated
\* and is accepted if it qualifies.
C24_FetchFailureSkipsCandidate ==
    (run.op = "try_fetch_rates_for_date" /\ run.done /\ run.site.launch)
        => \A t \in Trends :
              LET other == run.site.pages[OtherTrend(t)]
              IN  run.site.pages[t].fetch = "error"
                    => /\ fetch_page_content(run.site.pages[t]) = None
                       /\ IsRaised(run.out)
                            => (other.fetch = "ok" /\ NoNotFoundMarker(other)
                                    /\ IsRaised(parse_rates(other)))
                       /\ CandidateAccepted(OtherTrend(t))
                            => /\ ~ IsRaised(run.out)
                               /\ run.out.success = Some(TRUE)
                               /\ run.out.url = Some(get_month_url(run.target)[OtherTrend(t)])
                               /\ run.out.data =
                                     Some(parse_rates(other) @@ [trend |-> Some(OtherTrend(t))])
                       /\ (other.fetch = "error" \/ ~ NoNotFoundMarker(other))
                            => /\ ~ IsRaised(run.out)
                               /\ run.out.success = Some(FALSE)

C24_Witness ==
    /\ Resolved
    /\ run.site.launch
    /\ run.site.pages["down"].fetch = "error"
    /\ CandidateAccepted("up")
    /\ run.out.success = Some(TRUE)
    /\ run.out.data[1].trend = Some("up")
    /\ run.out.data[1].rate_kwh # None

-----------------------------------------------------------------------------
(* Properties of the months of the data, checked under Spec *)

\* C25: whenever the cache holds data, the stored month is the calendar month
\* the data was acquired for, also when the clock crosses a month boundary
\* between the handler's read of the time (api.py line 64) and the
\* acquirer's (scraper.py line 180).
C25_CachedMonthIsDataMonth ==
    cache.data # None => cache.month = cache.data[1].target_month

\* The month of the rate data a get returned with success true, if it did.
ReturnedMonth(l) ==
    IF l.op = "rates" /\ l.status = 200 /\ "success" \in DOMAIN l.body
    THEN IF l.body.success = Some(TRUE) THEN l.body.target_month ELSE None
    ELSE None

\* The months of a (year, month) counted from year 0.
MonthNumber(ym) == ym[1] * 12 + ym[2]

\* C26: the month of the rate data returned with success true never moves
\* backwards: a get that returns data for a month is never followed by a get
\* that returns data for an earlier month.
C26_MonthNeverBackwards ==
    [][ (RatesStep /\ ReturnedMonth(last) # None /\ ReturnedMonth(last') # None)
        => MonthNumber(ReturnedMonth(last')[1]) >= MonthNumber(ReturnedMonth(last)[1]) ]_vars

====
